---- MODULE Spec2Model ----
(***************************************************************************)
(* Model of cdw_file_to_table_load_utility_v1.py: the load of one tabular  *)
(* file from the object store into an Oracle staging table                 *)
(* (read_from_s3_and_write_to_oracle and its nested step functions).       *)
(*                                                                         *)
(* Strings the code inspects character by character (column names) are     *)
(* sequences of one-character strings; scalar cell values are records      *)
(* [type, val]; the database is the committed content of the staging       *)
(* table plus the catalog's column list.                                   *)
(***************************************************************************)
EXTENDS Integers, Sequences, FiniteSets, TLC

VARIABLES
    pc,                           \* position in read_from_s3_and_write_to_oracle
    objects_list,                 \* keys listed under the prefix (line 216)
    source_filepath,              \* the requested key
    objIdx,                       \* index of the for loop of line 218
    dataDF_columns,               \* header of the parsed file
    dataInsertionTuples,          \* rows of the parsed file
    modified_dataInsertionTuples, \* rows after the NaN -> None pass
    stagingTableOptionalColumns,  \* caller's exclusion list
    dateColumnConversion,         \* caller's date mappings (list of dicts)
    catalog,                      \* sys.all_tab_columns rows of the table, by column_id
    table,                        \* committed rows of the staging table
    staging_table_columns,        \* result of retrieve_staging_table_column_names
    data_insertion_query,         \* statement built by load_csv_data_into_table
    openConnections,              \* connections opened and never closed
    openCursors,                  \* cursors opened and never closed
    issued,                       \* steps called so far, with their outcome
    records_count,                \* counts printed by validate_by_count_query
    raised                        \* exception that left read_from_s3_and_write_to_oracle

vars == <<pc, objects_list, source_filepath, objIdx, dataDF_columns,
          dataInsertionTuples, modified_dataInsertionTuples,
          stagingTableOptionalColumns, dateColumnConversion, catalog, table,
          staging_table_columns, data_insertion_query, openConnections,
          openCursors, issued, records_count, raised>>

-----------------------------------------------------------------------------
(* Bounds of the model.                                                    *)

MaxFileRows == 2     \* rows of the file of a whole load
MaxPrior == 1        \* rows in the table before a load
MaxNormRows == 2     \* rows given to the normalization pass alone
MaxCols == 2         \* catalog columns given to column resolution alone
MaxNameLen == 3      \* characters of a catalog column name
MaxSynthCols == 2    \* resolved columns given to statement synthesis alone
MaxWidth == 2        \* source-row width given to statement synthesis alone
MaxDateMaps == 2     \* entries of dateColumnConversion

-----------------------------------------------------------------------------
(* Scalar values of a parsed cell.                                         *)

None == [type |-> "NoneType", val |-> "None"]
NaN == [type |-> "float", val |-> "nan"]
Float2 == [type |-> "float", val |-> "2.0"]
Int1 == [type |-> "int", val |-> "1"]
TextX == [type |-> "str", val |-> "x"]

CellValues == {NaN, Float2, Int1, TextX, None}

\* isinstance(value, float)
IsFloat(value) == value.type = "float"

\* math.isnan(value), for a float
IsNan(value) == value.val = "nan"

\* The sequences over S of length lo..hi.
SeqsOf(S, lo, hi) == UNION {[1..n -> S] : n \in lo..hi}

Range(s) == {s[i] : i \in DOMAIN s}

-----------------------------------------------------------------------------
(* Row normalization, lines 261-269.                                       *)

\* A plausible slip: every float becomes None (the isnan test dropped).
NormalizeValueAllFloats(value) == IF IsFloat(value) THEN None ELSE value

\* Lines 265-267: a float that is NaN becomes None, anything else stays.
NormalizeValue(value) ==
    IF IsFloat(value) THEN (IF IsNan(value) THEN None ELSE value) ELSE value

\* Lines 263-268: list(dataTuple), the pass over it, tuple(dataList).
NormalizeTuple(dataTuple) ==
    [idx \in 1..Len(dataTuple) |-> NormalizeValue(dataTuple[idx])]

\* Lines 261-269: one modified tuple appended per input tuple, in order.
NormalizeRows(rows) == [i \in 1..Len(rows) |-> NormalizeTuple(rows[i])]

-----------------------------------------------------------------------------
(* Column resolution, lines 98-131.  A column name is a sequence of        *)
(* one-character strings.                                                  *)

Alphabet == {"A", " "}
Whitespace == {" "}
Quote == "\""

IsSpace(c) == c \in Whitespace

\* re.search(r'\s', stagingTableCol) is not None, line 128
HasWhitespace(name) == \E i \in 1..Len(name) : IsSpace(name[i])

RECURSIVE LStrip(_)
LStrip(name) ==
    IF name = <<>> THEN <<>>
    ELSE IF IsSpace(Head(name)) THEN LStrip(Tail(name)) ELSE name

RECURSIVE RStrip(_)
RStrip(name) ==
    IF name = <<>> THEN <<>>
    ELSE IF IsSpace(name[Len(name)]) THEN RStrip(SubSeq(name, 1, Len(name) - 1))
    ELSE name

\* str.strip(), line 116
Strip(name) == RStrip(LStrip(name))

\* Line 106: stagingTableColumnsDF.values.squeeze().tolist().  The frame has
\* one column and one row per catalog column.  With two or more rows squeeze
\* leaves a vector and tolist() gives the list of names; with exactly one
\* row squeeze leaves a 0-d array and tolist() gives the name itself, a str,
\* which line 116 then iterates character by character; with no row the
\* list is empty.
SqueezeToList(records) ==
    IF Len(records) = 1
    THEN [i \in 1..Len(records[1]) |-> <<records[1][i]>>]
    ELSE records

\* Line 116: the stripped names that are not in the optional list, in order.
RECURSIVE StagingTableColumnsModifiedv1(_, _)
StagingTableColumnsModifiedv1(stagingTableColumns, optionalColumns) ==
    IF stagingTableColumns = <<>> THEN <<>>
    ELSE (IF Strip(Head(stagingTableColumns)) \in Range(optionalColumns)
          THEN <<>>
          ELSE <<Strip(Head(stagingTableColumns))>>)
         \o StagingTableColumnsModifiedv1(Tail(stagingTableColumns), optionalColumns)

\* A plausible slip: only a leading whitespace character is looked for
\* (re.match in place of re.search).
QuoteIfLeadingWhitespace(stagingTableCol) ==
    IF stagingTableCol # <<>> /\ IsSpace(Head(stagingTableCol))
    THEN <<Quote>> \o stagingTableCol \o <<Quote>>
    ELSE stagingTableCol

\* Lines 128-131: a name with whitespace is wrapped in double quotes.
QuoteIfWhitespace(stagingTableCol) ==
    IF HasWhitespace(stagingTableCol)
    THEN <<Quote>> \o stagingTableCol \o <<Quote>>
    ELSE stagingTableCol

\* Lines 126-131.
StagingTableColumnsModifiedv2(modifiedv1) ==
    [i \in 1..Len(modifiedv1) |-> QuoteIfWhitespace(modifiedv1[i])]

\* An entry of the form "name" (line 129).
IsQuoted(entry) ==
    /\ Len(entry) >= 2
    /\ entry[1] = Quote
    /\ entry[Len(entry)] = Quote

\* The identifier an entry of the column list denotes to the database.
Unquote(entry) ==
    IF IsQuoted(entry) THEN SubSeq(entry, 2, Len(entry) - 1) ELSE entry

\* Lines 98-131: what retrieve_staging_table_column_names returns when the
\* catalog query succeeded with `records`.
ResolveColumns(records, optionalColumns) ==
    StagingTableColumnsModifiedv2(
        StagingTableColumnsModifiedv1(SqueezeToList(records), optionalColumns))

-----------------------------------------------------------------------------
(* Statement synthesis, lines 182-193.                                     *)

Formats == {"DD/MM/YYYY", "YYYY-MM-DD"}

\* An entry of dateColumnConversion.
DateDict(index, format) ==
    [dateColumnIndex |-> index, dateColumnConversionFormat |-> format]

\* f"TO_DATE(:{x+1}, '{format}')", line 188
ToDateSlot(x, format) == [kind |-> "TO_DATE", placeholder |-> x + 1, format |-> format]

\* f":{x+1}", line 190
BareSlot(x) == [kind |-> "bare", placeholder |-> x + 1, format |-> ""]

\* A plausible slip: the mapping index taken as 1-based.
DictMatchesOneBased(x, dateColConversionDict) ==
    x + 1 = dateColConversionDict.dateColumnIndex

\* Line 186
DictMatches(x, dateColConversionDict) ==
    x = dateColConversionDict.dateColumnIndex

\* Lines 185-188: one TO_DATE slot appended per mapping whose index is x, in
\* the order of the list (the loop does not stop at the first match).
RECURSIVE DateSlots(_, _)
DateSlots(x, conversions) ==
    IF conversions = <<>> THEN <<>>
    ELSE (IF DictMatches(x, Head(conversions))
          THEN <<ToDateSlot(x, Head(conversions).dateColumnConversionFormat)>>
          ELSE <<>>)
         \o DateSlots(x, Tail(conversions))

\* Lines 184-190: the slots appended for position x; the bare placeholder
\* when no mapping matched (dateColumnIndexExists stayed False).
SlotsFor(x, conversions) ==
    IF DateSlots(x, conversions) = <<>> THEN <<BareSlot(x)>>
    ELSE DateSlots(x, conversions)

\* Lines 182-190: for x in range(0, len(dataDF_columns)).
RECURSIVE ValuesFrom(_, _, _)
ValuesFrom(x, width, conversions) ==
    IF x >= width THEN <<>>
    ELSE SlotsFor(x, conversions) \o ValuesFrom(x + 1, width, conversions)

ValuesToInsert(width, conversions) == ValuesFrom(0, width, conversions)

NoQuery == [built |-> FALSE, columns |-> <<>>, values |-> <<>>]

\* Line 193: INSERT INTO <table>(<columns joined>) VALUES(<slots joined>)
DataInsertionQuery(columns, width, conversions) ==
    [built |-> TRUE, columns |-> columns, values |-> ValuesToInsert(width, conversions)]

-----------------------------------------------------------------------------
(* The database as the steps see it.                                       *)

\* A row of the table, tagged with where it came from.
PriorRow == [origin |-> "prior", row |-> <<Int1>>]
FromFile(rows) == [i \in 1..Len(rows) |-> [origin |-> "file", row |-> rows[i]]]

\* Outcomes of the try block shared by the four step functions: connecting
\* fails (connect_to_oracledb returns None, lines 44-46), connection.cursor()
\* raises, the statement raises, or everything succeeds.
StepOutcomes == {"connect_failed", "cursor_failed", "execute_failed", "ok"}

\* Lines 60-61, 79-80, 140-141, 202-203: `if cursor:` in the finally block.
\* When connecting or connection.cursor() failed, the local `cursor` was
\* never bound, and the test itself raises UnboundLocalError.
FinallyRaises(outcome) == outcome \in {"connect_failed", "cursor_failed"}

\* Lines 63-64, 82-83, 143-144, 205-206: connection.close() is not reached
\* when `if cursor:` raised; a connection that was established stays open.
ConnectionsLeftOpen(outcome) == IF outcome = "cursor_failed" THEN 1 ELSE 0

\* Lines 61-62: a cursor that was bound is always closed.
CursorsLeftOpen(outcome) == 0

\* A plausible slip: the statement of line 54 leaves the rows in place (a
\* DELETE that is never committed).
TableAfterTruncateKept(tbl, outcome) == tbl

\* Line 54: TRUNCATE TABLE, committed by the database when it succeeds.
TableAfterTruncate(tbl, outcome) == IF outcome = "ok" THEN <<>> ELSE tbl

\* Line 197, with lines 108-110 (ORA-00947) and 118-121: the database cannot
\* accept an insert whose column list is empty, differs in length from its
\* value list, names a column twice or names a column the table has not.
DriverCanAccept(query, tableColumns) ==
    /\ Len(query.columns) > 0
    /\ Len(query.columns) = Len(query.values)
    /\ \A i, j \in 1..Len(query.columns) :
           i # j => query.columns[i] # query.columns[j]
    /\ \A i \in 1..Len(query.columns) :
           Unquote(query.columns[i]) \in Range(tableColumns)

\* A plausible slip: the rows written before the failure are committed
\* (commit moved into the finally block, or an autocommit connection).
TableAfterLoadAutocommit(tbl, written, committed) == tbl \o written

\* Lines 197-206: rows written by executemany become part of the table at
\* connection.commit(); connection.close() without it rolls them back.
TableAfterLoad(tbl, written, committed) ==
    IF committed THEN tbl \o written ELSE tbl

\* Outcomes of load_csv_data_into_table once executemany has been called.
SentOutcomes == {"executemany_failed", "commit_failed", "ok"}

Entry(step, outcome) == [step |-> step, outcome |-> outcome]

-----------------------------------------------------------------------------
(* Object keys: <<stem, extension>>.                                       *)

CsvKey == <<"inputstream/cdw/a", ".csv">>
XlsxKey == <<"inputstream/cdw/b", ".xlsx">>
TxtKey == <<"inputstream/cdw/c", ".txt">>
Keys == {CsvKey, XlsxKey, TxtKey}

\* obj_name.endswith(suffix)
EndsWith(obj_name, suffix) == obj_name[Len(obj_name)] = suffix

\* A plausible slip: any object with a readable suffix is taken (the
\* comparison with source_filepath dropped).
MatchesSuffixOnly(obj_name, wanted) ==
    EndsWith(obj_name, ".csv") \/ EndsWith(obj_name, ".xlsx")

\* Line 225
Matches(obj_name, wanted) ==
    /\ EndsWith(obj_name, ".csv") \/ EndsWith(obj_name, ".xlsx")
    /\ obj_name = wanted

Header(w) == [i \in 1..w |-> "column"]
RowsOfWidth(w, values) == [1..w -> values]

-----------------------------------------------------------------------------
(* The body of read_from_s3_and_write_to_oracle, lines 216-281.            *)

\* Line 216: list_objects_v2 found keys under the prefix; .get('Contents')
\* is their list.
ListObjects ==
    /\ pc = "List"
    /\ objects_list # <<>>
    /\ pc' = "Loop"
    /\ UNCHANGED <<objects_list, source_filepath, objIdx, dataDF_columns,
                   dataInsertionTuples, modified_dataInsertionTuples,
                   stagingTableOptionalColumns, dateColumnConversion, catalog,
                   table, staging_table_columns, data_insertion_query,
                   openConnections, openCursors, issued, records_count, raised>>

\* Lines 216-218: no key lies under the prefix, the response has no
\* 'Contents' entry, .get('Contents') is None and `for obj in None` raises.
ListNoContents ==
    /\ pc = "List"
    /\ objects_list = <<>>
    /\ pc' = "Raised"
    /\ raised' = "TypeError"
    /\ UNCHANGED <<objects_list, source_filepath, objIdx, dataDF_columns,
                   dataInsertionTuples, modified_dataInsertionTuples,
                   stagingTableOptionalColumns, dateColumnConversion, catalog,
                   table, staging_table_columns, data_insertion_query,
                   openConnections, openCursors, issued, records_count>>

\* Lines 218-225: an object that is not the requested file is passed over.
SkipObject ==
    /\ pc = "Loop"
    /\ objIdx <= Len(objects_list)
    /\ ~Matches(objects_list[objIdx], source_filepath)
    /\ objIdx' = objIdx + 1
    /\ dataDF_columns' = <<>>
    /\ dataInsertionTuples' = <<>>
    /\ UNCHANGED <<pc, objects_list, source_filepath, modified_dataInsertionTuples,
                   stagingTableOptionalColumns, dateColumnConversion, catalog,
                   table, staging_table_columns, data_insertion_query,
                   openConnections, openCursors, issued, records_count, raised>>

\* Lines 218-225: the requested file is found.
MatchObject ==
    /\ pc = "Loop"
    /\ objIdx <= Len(objects_list)
    /\ Matches(objects_list[objIdx], source_filepath)
    /\ pc' = "Fetch"
    /\ dataDF_columns' = <<>>
    /\ dataInsertionTuples' = <<>>
    /\ UNCHANGED <<objects_list, source_filepath, objIdx,
                   modified_dataInsertionTuples, stagingTableOptionalColumns,
                   dateColumnConversion, catalog, table, staging_table_columns,
                   data_insertion_query, openConnections, openCursors, issued,
                   records_count, raised>>

\* Line 218: the listing is exhausted and the function returns.
LoopEnd ==
    /\ pc = "Loop"
    /\ objIdx > Len(objects_list)
    /\ pc' = "Returned"
    /\ UNCHANGED <<objects_list, source_filepath, objIdx, dataDF_columns,
                   dataInsertionTuples, modified_dataInsertionTuples,
                   stagingTableOptionalColumns, dateColumnConversion, catalog,
                   table, staging_table_columns, data_insertion_query,
                   openConnections, openCursors, issued, records_count, raised>>

\* Lines 226-257: get_object and read_csv / read_excel give the header and
\* the rows of the file.
FetchAndParse(file) ==
    /\ pc = "Fetch"
    /\ pc' = "Normalize"
    /\ dataDF_columns' = file.columns
    /\ dataInsertionTuples' = file.rows
    /\ UNCHANGED <<objects_list, source_filepath, objIdx,
                   modified_dataInsertionTuples, stagingTableOptionalColumns,
                   dateColumnConversion, catalog, table, staging_table_columns,
                   data_insertion_query, openConnections, openCursors, issued,
                   records_count, raised>>

\* Lines 226-257: get_object, decode or the parser raises; nothing catches it.
FetchFails ==
    /\ pc = "Fetch"
    /\ pc' = "Raised"
    /\ raised' = "FetchOrParseError"
    /\ UNCHANGED <<objects_list, source_filepath, objIdx, dataDF_columns,
                   dataInsertionTuples, modified_dataInsertionTuples,
                   stagingTableOptionalColumns, dateColumnConversion, catalog,
                   table, staging_table_columns, data_insertion_query,
                   openConnections, openCursors, issued, records_count>>

\* Lines 261-269
Normalize ==
    /\ pc = "Normalize"
    /\ pc' = "Truncate"
    /\ modified_dataInsertionTuples' = NormalizeRows(dataInsertionTuples)
    /\ UNCHANGED <<objects_list, source_filepath, objIdx, dataDF_columns,
                   dataInsertionTuples, stagingTableOptionalColumns,
                   dateColumnConversion, catalog, table, staging_table_columns,
                   data_insertion_query, openConnections, openCursors, issued,
                   records_count, raised>>

\* Lines 48-64 and 273: delete_existing_data_before_load.  A statement the
\* database rejects is printed by the except clause and the function
\* returns; an unbound `cursor` makes the finally block raise.
Truncate(outcome) ==
    /\ pc = "Truncate"
    /\ issued' = Append(issued, Entry("truncate", outcome))
    /\ table' = TableAfterTruncate(table, outcome)
    /\ openConnections' = openConnections + ConnectionsLeftOpen(outcome)
    /\ openCursors' = openCursors + CursorsLeftOpen(outcome)
    /\ IF FinallyRaises(outcome)
       THEN pc' = "Raised" /\ raised' = "UnboundLocalError"
       ELSE pc' = "CountBefore" /\ raised' = raised
    /\ UNCHANGED <<objects_list, source_filepath, objIdx, dataDF_columns,
                   dataInsertionTuples, modified_dataInsertionTuples,
                   stagingTableOptionalColumns, dateColumnConversion, catalog,
                   staging_table_columns, data_insertion_query, records_count>>

\* Lines 66-83, called at 275 and 281: validate_by_count_query.
Count(outcome) ==
    /\ pc \in {"CountBefore", "CountAfter"}
    /\ issued' = Append(issued, Entry("count", outcome))
    /\ records_count' = IF outcome = "ok"
                        THEN Append(records_count, Len(table))
                        ELSE records_count
    /\ openConnections' = openConnections + ConnectionsLeftOpen(outcome)
    /\ openCursors' = openCursors + CursorsLeftOpen(outcome)
    /\ IF FinallyRaises(outcome)
       THEN pc' = "Raised" /\ raised' = "UnboundLocalError" /\ objIdx' = objIdx
       ELSE /\ raised' = raised
            /\ IF pc = "CountBefore"
               THEN pc' = "Resolve" /\ objIdx' = objIdx
               ELSE pc' = "Loop" /\ objIdx' = objIdx + 1
    /\ UNCHANGED <<objects_list, source_filepath, dataDF_columns,
                   dataInsertionTuples, modified_dataInsertionTuples,
                   stagingTableOptionalColumns, dateColumnConversion, catalog,
                   table, staging_table_columns, data_insertion_query>>

\* Lines 85-144, called at 277: retrieve_staging_table_column_names.  A
\* failing query (or commit, line 134) is printed by the except clause and
\* the function returns None.
Resolve(outcome) ==
    /\ pc = "Resolve"
    /\ issued' = Append(issued, Entry("catalog", outcome))
    /\ staging_table_columns' =
           IF outcome = "ok"
           THEN [isNone |-> FALSE,
                 list |-> ResolveColumns(catalog, stagingTableOptionalColumns)]
           ELSE [isNone |-> TRUE, list |-> <<>>]
    /\ openConnections' = openConnections + ConnectionsLeftOpen(outcome)
    /\ openCursors' = openCursors + CursorsLeftOpen(outcome)
    /\ IF FinallyRaises(outcome)
       THEN pc' = "Raised" /\ raised' = "UnboundLocalError"
       ELSE pc' = "Load" /\ raised' = raised
    /\ UNCHANGED <<objects_list, source_filepath, objIdx, dataDF_columns,
                   dataInsertionTuples, modified_dataInsertionTuples,
                   stagingTableOptionalColumns, dateColumnConversion, catalog,
                   table, data_insertion_query, records_count>>

\* Lines 146-149 and 202-206: load_csv_data_into_table cannot connect or
\* cannot create its cursor; the finally block raises.
LoadNoCursor(outcome) ==
    /\ pc = "Load"
    /\ FinallyRaises(outcome)
    /\ issued' = Append(issued, Entry("insert", outcome))
    /\ openConnections' = openConnections + ConnectionsLeftOpen(outcome)
    /\ openCursors' = openCursors + CursorsLeftOpen(outcome)
    /\ pc' = "Raised"
    /\ raised' = "UnboundLocalError"
    /\ UNCHANGED <<objects_list, source_filepath, objIdx, dataDF_columns,
                   dataInsertionTuples, modified_dataInsertionTuples,
                   stagingTableOptionalColumns, dateColumnConversion, catalog,
                   table, staging_table_columns, data_insertion_query,
                   records_count>>

\* Line 193 with staging_table_columns None (the catalog step returned
\* nothing): len(None) raises TypeError before executemany; the finally
\* block closes cursor and connection.
LoadColumnsNone ==
    /\ pc = "Load"
    /\ staging_table_columns.isNone
    /\ issued' = Append(issued, Entry("insert", "columns_none"))
    /\ pc' = "Raised"
    /\ raised' = "TypeError"
    /\ UNCHANGED <<objects_list, source_filepath, objIdx, dataDF_columns,
                   dataInsertionTuples, modified_dataInsertionTuples,
                   stagingTableOptionalColumns, dateColumnConversion, catalog,
                   table, staging_table_columns, data_insertion_query,
                   openConnections, openCursors, records_count>>

\* Lines 182-206: the statement is built and sent.  executemany raises after
\* writing the first k rows, or commit raises, or both succeed.  There is no
\* except clause: an error leaves through the finally block, which closes
\* cursor and connection.
LoadExecute(outcome) ==
    /\ pc = "Load"
    /\ ~staging_table_columns.isNone
    /\ outcome \in SentOutcomes
    /\ \E k \in 0..Len(modified_dataInsertionTuples) :
       LET query == DataInsertionQuery(staging_table_columns.list,
                                       Len(dataDF_columns), dateColumnConversion)
           written == FromFile(SubSeq(modified_dataInsertionTuples, 1, k))
       IN  /\ IF outcome = "executemany_failed"
              THEN k < Len(modified_dataInsertionTuples) \/ k = 0
              ELSE DriverCanAccept(query, catalog) /\ k = Len(modified_dataInsertionTuples)
           /\ data_insertion_query' = query
           /\ table' = TableAfterLoad(table, written, outcome = "ok")
    /\ issued' = Append(issued, Entry("insert", outcome))
    /\ IF outcome = "ok"
       THEN pc' = "CountAfter" /\ raised' = raised
       ELSE pc' = "Raised" /\ raised' = "DatabaseError"
    /\ UNCHANGED <<objects_list, source_filepath, objIdx, dataDF_columns,
                   dataInsertionTuples, modified_dataInsertionTuples,
                   stagingTableOptionalColumns, dateColumnConversion, catalog,
                   staging_table_columns, openConnections, openCursors,
                   records_count>>

-----------------------------------------------------------------------------
(* Inputs and specifications.                                              *)

NameA == <<"A">>
NameAA == <<"A", "A">>
NameA_A == <<"A", " ", "A">>

Unassigned == [isNone |-> TRUE, list |-> <<>>]

\* The state on entry, before the listing of line 216.
AtEntry ==
    /\ pc = "List"
    /\ objIdx = 1
    /\ dataDF_columns = <<>>
    /\ dataInsertionTuples = <<>>
    /\ modified_dataInsertionTuples = <<>>
    /\ staging_table_columns = Unassigned
    /\ data_insertion_query = NoQuery
    /\ openConnections = 0
    /\ openCursors = 0
    /\ issued = <<>>
    /\ records_count = <<>>
    /\ raised = "none"

\* What the bucket holds under the prefix (nothing, for <<>>).
ObjectLists == {<<>>, <<CsvKey>>, <<TxtKey, XlsxKey>>, <<TxtKey>>}
FileWidths == {1, 2}
MainValues == {NaN, Int1}
MainFiles ==
    UNION {{[columns |-> Header(w), rows |-> rows] :
               rows \in SeqsOf(RowsOfWidth(w, MainValues), 0, MaxFileRows)} :
           w \in FileWidths}
MainCatalogs == {<<>>, <<NameAA>>, <<NameA, NameAA>>, <<NameA, NameA_A>>}
MainOptional == {<<>>, <<NameAA>>}
MainDateConversions ==
    {<<>>, <<DateDict(0, "DD/MM/YYYY")>>,
     <<DateDict(0, "DD/MM/YYYY"), DateDict(0, "YYYY-MM-DD")>>,
     <<DateDict(2, "DD/MM/YYYY")>>}

\* A whole call of read_from_s3_and_write_to_oracle.
Init ==
    /\ AtEntry
    /\ objects_list \in ObjectLists
    /\ source_filepath \in Keys
    /\ stagingTableOptionalColumns \in MainOptional
    /\ dateColumnConversion \in MainDateConversions
    /\ catalog \in MainCatalogs
    /\ table \in SeqsOf({PriorRow}, 0, MaxPrior)

Next ==
    \/ ListObjects
    \/ ListNoContents
    \/ SkipObject
    \/ MatchObject
    \/ LoopEnd
    \/ \E file \in MainFiles : FetchAndParse(file)
    \/ FetchFails
    \/ Normalize
    \/ \E outcome \in StepOutcomes : Truncate(outcome)
    \/ \E outcome \in StepOutcomes : Count(outcome)
    \/ \E outcome \in StepOutcomes : Resolve(outcome)
    \/ \E outcome \in StepOutcomes : LoadNoCursor(outcome)
    \/ LoadColumnsNone
    \/ \E outcome \in SentOutcomes : LoadExecute(outcome)

Spec == Init /\ [][Next]_vars

\* The state in which the requested file has just been parsed.
AtMatchedFile ==
    /\ objects_list = <<CsvKey>>
    /\ source_filepath = CsvKey
    /\ objIdx = 1
    /\ staging_table_columns = Unassigned
    /\ data_insertion_query = NoQuery
    /\ openConnections = 0
    /\ openCursors = 0
    /\ records_count = <<>>
    /\ raised = "none"

\* The normalization pass on its own, over every small file.
NormWidths == {1, 2}
NormFiles ==
    UNION {{[columns |-> Header(w), rows |-> rows] :
               rows \in SeqsOf(RowsOfWidth(w, CellValues), 0, MaxNormRows)} :
           w \in NormWidths}

InitNorm ==
    /\ AtMatchedFile
    /\ pc = "Normalize"
    /\ \E file \in NormFiles :
           dataDF_columns = file.columns /\ dataInsertionTuples = file.rows
    /\ modified_dataInsertionTuples = <<>>
    /\ stagingTableOptionalColumns = <<>>
    /\ dateColumnConversion = <<>>
    /\ catalog = <<NameA, NameAA>>
    /\ table = <<>>
    /\ issued = <<>>

NextNorm == Normalize

SpecNorm == InitNorm /\ [][NextNorm]_vars

\* Column resolution on its own, over every small catalog.  The columns of
\* one table have different names.
Names == SeqsOf(Alphabet, 1, MaxNameLen)
Catalogs ==
    {c \in SeqsOf(Names, 0, MaxCols) :
        \A i, j \in 1..Len(c) : i # j => c[i] # c[j]}
OptionalLists == {<<>>, <<NameA>>, <<NameA_A>>, <<NameA, NameA_A>>}

InitResolve ==
    /\ pc = "Resolve"
    /\ objects_list = <<CsvKey>>
    /\ source_filepath = CsvKey
    /\ objIdx = 1
    /\ staging_table_columns = Unassigned
    /\ data_insertion_query = NoQuery
    /\ openConnections = 0
    /\ openCursors = 0
    /\ records_count = <<0>>
    /\ raised = "none"
    /\ dataDF_columns = Header(1)
    /\ dataInsertionTuples = <<<<Int1>>>>
    /\ modified_dataInsertionTuples = <<<<Int1>>>>
    /\ stagingTableOptionalColumns \in OptionalLists
    /\ dateColumnConversion = <<>>
    /\ catalog \in Catalogs
    /\ table = <<>>
    /\ issued = <<Entry("truncate", "ok"), Entry("count", "ok")>>

NextResolve == \E outcome \in StepOutcomes : Resolve(outcome)

SpecResolve == InitResolve /\ [][NextResolve]_vars

\* Statement synthesis and the insert on their own, over every small
\* column list, row width and list of date mappings (indices outside the
\* row included).  The table has the columns A, AA, ... and none is optional.
SynthColumns(n) == [i \in 1..n |-> [j \in 1..i |-> "A"]]
DateDicts == {DateDict(i, f) : i \in (-1)..MaxWidth, f \in Formats}

InitSynth ==
    /\ pc = "Load"
    /\ objects_list = <<CsvKey>>
    /\ source_filepath = CsvKey
    /\ objIdx = 1
    /\ data_insertion_query = NoQuery
    /\ openConnections = 0
    /\ openCursors = 0
    /\ records_count = <<0>>
    /\ raised = "none"
    /\ \E w \in 1..MaxWidth :
           /\ dataDF_columns = Header(w)
           /\ dataInsertionTuples = <<[i \in 1..w |-> Int1]>>
           /\ modified_dataInsertionTuples = <<[i \in 1..w |-> Int1]>>
    /\ stagingTableOptionalColumns = <<>>
    /\ dateColumnConversion \in SeqsOf(DateDicts, 0, MaxDateMaps)
    /\ table = <<>>
    /\ \E n \in 0..MaxSynthCols, none \in BOOLEAN :
           /\ catalog = SynthColumns(n)
           /\ staging_table_columns =
                  IF none THEN Unassigned
                  ELSE [isNone |-> FALSE,
                        list |-> ResolveColumns(catalog, stagingTableOptionalColumns)]
           /\ issued = <<Entry("truncate", "ok"), Entry("count", "ok"),
                         Entry("catalog", IF none THEN "execute_failed" ELSE "ok")>>

NextSynth ==
    \/ \E outcome \in StepOutcomes : LoadNoCursor(outcome)
    \/ LoadColumnsNone
    \/ \E outcome \in SentOutcomes : LoadExecute(outcome)

SpecSynth == InitSynth /\ [][NextSynth]_vars

-----------------------------------------------------------------------------
(* Properties.                                                             *)

RowWidth == Len(dataDF_columns)

\* The entry of the step `step`, when it has been called.
Called(step) == \E i \in 1..Len(issued) : issued[i].step = step
OutcomeOf(step) ==
    issued[CHOOSE i \in 1..Len(issued) : issued[i].step = step].outcome

IsFromFile(r) == r.origin = "file"
IndexInRow(d) == d.dateColumnIndex >= 0 /\ d.dateColumnIndex < RowWidth

\* C1: whenever the function has processed the matched file and returned
\* without raising, the table holds exactly the normalized rows of the file
\* and no row it held before the load.
C1_FullReplace ==
    (pc = "Returned" /\ Called("insert"))
        => table = FromFile(modified_dataInsertionTuples)

\* C2: a failure of the truncate, of the catalog query or of the bulk insert
\* ends the load at that step: it is the last step called, the load has
\* failed and the error has reached the caller.
C2_FirstErrorAborts ==
    \A i \in 1..Len(issued) :
        (issued[i].step \in {"truncate", "catalog", "insert"}
            /\ issued[i].outcome # "ok")
        => (i = Len(issued) /\ pc = "Raised" /\ raised # "none")

\* C3: for a non-empty resolved column list, a row width at least its
\* length and date mappings with indices inside the row, the statement has
\* exactly RowWidth value slots carrying :1 .. :RowWidth in ascending order,
\* and as many named columns as the resolved list has entries.
C3_StatementShape ==
    (/\ data_insertion_query.built
     /\ Len(staging_table_columns.list) >= 1
     /\ RowWidth >= Len(staging_table_columns.list)
     /\ \A d \in Range(dateColumnConversion) : IndexInRow(d))
    => (/\ Len(data_insertion_query.values) = RowWidth
        /\ \A n \in 1..Len(data_insertion_query.values) :
               data_insertion_query.values[n].placeholder = n
        /\ Len(data_insertion_query.columns) = Len(staging_table_columns.list))

\* The slots of the statement that carry placeholder :(x+1), in order.
SlotsOfPosition(x) ==
    LET Carries(slot) == slot.placeholder = x + 1
    IN  SelectSeq(data_insertion_query.values, Carries)

\* The mappings the caller supplied for source-row position x, in order.
MappingsOfPosition(x) ==
    LET IsFor(d) == d.dateColumnIndex = x
    IN  SelectSeq(dateColumnConversion, IsFor)

\* C4: in the statement, every source-row position x in [0, RowWidth) that a
\* date mapping names is carried by TO_DATE around :(x+1) with exactly the
\* format supplied for x, every other position by the bare placeholder
\* :(x+1); positions are those of the source row, whatever the length of
\* the resolved column list.
C4_DateSlots ==
    data_insertion_query.built =>
        /\ \A n \in 1..Len(data_insertion_query.values) :
               data_insertion_query.values[n].placeholder \in 1..RowWidth
        /\ \A x \in 0..(RowWidth - 1) :
               IF MappingsOfPosition(x) = <<>>
               THEN SlotsOfPosition(x) =
                        <<[kind |-> "bare", placeholder |-> x + 1, format |-> ""]>>
               ELSE /\ Len(SlotsOfPosition(x)) = Len(MappingsOfPosition(x))
                    /\ \A j \in 1..Len(SlotsOfPosition(x)) :
                           /\ SlotsOfPosition(x)[j].kind = "TO_DATE"
                           /\ SlotsOfPosition(x)[j].format =
                                  MappingsOfPosition(x)[j].dateColumnConversionFormat

\* C4 happens: a statement whose date-mapped position lies beyond the end of
\* the resolved column list, carried by TO_DATE, next to a bare position.
C4_Witness ==
    /\ data_insertion_query.built
    /\ \E x \in 0..(RowWidth - 1) :
           /\ x >= Len(data_insertion_query.columns)
           /\ MappingsOfPosition(x) # <<>>
           /\ SlotsOfPosition(x)[1].kind = "TO_DATE"
    /\ \E x \in 0..(RowWidth - 1) :
           /\ MappingsOfPosition(x) = <<>>
           /\ SlotsOfPosition(x)[1].kind = "bare"

\* The normalized rows against the rows they come from.
NormalizedFrom(rows, modified) ==
    /\ Len(modified) = Len(rows)
    /\ \A i \in 1..Len(rows) :
           /\ Len(modified[i]) = Len(rows[i])
           /\ \A j \in 1..Len(rows[i]) :
                  IF rows[i][j].type = "float" /\ rows[i][j].val = "nan"
                  THEN modified[i][j] = None
                  ELSE modified[i][j] = rows[i][j]

\* The rows `rows` normalize to: None for a float NaN, the value otherwise.
NormalizedRowsOf(rows) ==
    [i \in 1..Len(rows) |->
        [j \in 1..Len(rows[i]) |->
            IF rows[i][j] = NaN THEN None ELSE rows[i][j]]]

\* C5: the normalization pass gives as many rows in the same order, each of
\* the same width, with None where the input holds a float NaN and the
\* identical value everywhere else, and leaves its input as it was.
C5_Normalization ==
    [][pc = "Normalize" =>
          /\ dataInsertionTuples' = dataInsertionTuples
          /\ NormalizedFrom(dataInsertionTuples, modified_dataInsertionTuples')]_vars

\* C5 happens: a normalized file in which a NaN became None next to a float,
\* an integer or a text that stayed.
C5_Witness ==
    /\ pc = "Truncate"
    /\ \E i \in 1..Len(dataInsertionTuples) :
       \E j, k \in 1..Len(dataInsertionTuples[i]) :
           /\ dataInsertionTuples[i][j] = NaN
           /\ modified_dataInsertionTuples[i][j] = None
           /\ dataInsertionTuples[i][k] = Float2
           /\ modified_dataInsertionTuples[i][k] = Float2

\* The catalog columns whose trimmed name is not excluded, in catalog order.
KeptColumns ==
    LET Kept(c) == Strip(c) \notin Range(stagingTableOptionalColumns)
    IN  SelectSeq(catalog, Kept)

Resolved == Called("catalog") /\ OutcomeOf("catalog") = "ok"

\* C6: for a catalog of one or more columns, the resolved list has one entry
\* per catalog column whose trimmed name is not excluded, in catalog order,
\* and no entry names an excluded column.
C6_ResolutionKeepsColumns ==
    (Resolved /\ Len(catalog) >= 1) =>
        /\ Len(staging_table_columns.list) = Len(KeptColumns)
        /\ \A i \in 1..Len(staging_table_columns.list) :
               /\ i <= Len(KeptColumns)
                      => Unquote(staging_table_columns.list[i]) = Strip(KeptColumns[i])
               /\ Unquote(staging_table_columns.list[i])
                      \notin Range(stagingTableOptionalColumns)

\* C7: an entry of the resolved list is wrapped in double quotes exactly
\* when its trimmed name contains a whitespace character; a name without
\* whitespace is emitted bare, and the quotes enclose the trimmed name of a
\* catalog column unchanged.
C7_QuotedIffWhitespace ==
    Resolved =>
        \A i \in 1..Len(staging_table_columns.list) :
            LET entry == staging_table_columns.list[i]
            IN  /\ IsQuoted(entry) <=> HasWhitespace(Unquote(entry))
                /\ ~IsQuoted(entry) => \A n \in 1..Len(entry) : entry[n] # Quote
                /\ Unquote(entry) = Strip(Unquote(entry))
                /\ IsQuoted(entry) =>
                       \E c \in Range(catalog) : Unquote(entry) = Strip(c)

\* C7 happens: a resolved list with a quoted and a bare entry.
C7_Witness ==
    /\ Resolved
    /\ \E i, j \in 1..Len(staging_table_columns.list) :
           /\ IsQuoted(staging_table_columns.list[i])
           /\ HasWhitespace(staging_table_columns.list[i])
           /\ ~IsQuoted(staging_table_columns.list[j])
           /\ staging_table_columns.list[j] # <<>>

\* C8: between two steps and at the end of the load no connection and no
\* cursor opened by an earlier step is still open.
C8_ResourcesReleased == openConnections = 0 /\ openCursors = 0

\* The rows of the table that came from the file.
LoadedRows == SelectSeq(table, IsFromFile)

\* C9: once the insert step has run, the table holds every normalized row
\* (the batch was committed) or none of them; an insert that did not succeed
\* leaves none and its error reaches the caller, and when it follows a
\* successful truncate the table is left empty.
C9_AllOrNothing ==
    Called("insert") =>
        /\ OutcomeOf("insert") = "ok"
               => LoadedRows = FromFile(modified_dataInsertionTuples)
        /\ OutcomeOf("insert") # "ok"
               => /\ LoadedRows = <<>>
                  /\ pc = "Raised"
                  /\ raised # "none"
                  /\ OutcomeOf("truncate") = "ok" => table = <<>>

\* C9 happens: the driver rejected a batch of two rows after a successful
\* truncate of a table that held rows.
C9_Witness ==
    /\ Called("insert")
    /\ OutcomeOf("insert") = "executemany_failed"
    /\ OutcomeOf("truncate") = "ok"
    /\ Len(modified_dataInsertionTuples) = 2
    /\ table = <<>>
    /\ raised = "DatabaseError"

\* C10: when a date mapping names an index below 0 or at or beyond the row
\* width, synthesis fails with StatementSynthesisError and no insert is sent
\* to the database.
C10_IndexOutOfRowRejected ==
    (/\ Called("insert")
     /\ \E d \in Range(dateColumnConversion) : ~IndexInRow(d)
     /\ OutcomeOf("insert") \notin {"connect_failed", "cursor_failed", "columns_none"})
    => (/\ raised = "StatementSynthesisError"
        /\ OutcomeOf("insert") \notin SentOutcomes)

\* C11: column resolution never yields an empty list: when the catalog
\* query returns no row or fails, no column list is returned, no insert
\* statement is built and none is sent to the database, and the load ends
\* with an error.
C11_NoEmptyResolution ==
    (/\ Called("catalog")
     /\ \/ OutcomeOf("catalog") = "execute_failed"
        \/ OutcomeOf("catalog") = "ok" /\ catalog = <<>>)
    => (/\ staging_table_columns.isNone
        /\ ~data_insertion_query.built
        /\ Called("insert") => OutcomeOf("insert") \notin SentOutcomes
        /\ pc \in {"Returned", "Raised"} => raised # "none")

\* C12: a count step that fails, because its query raises or because its
\* connection is not established, is logged only: it never ends the load.
C12_CountsAdvisory ==
    \A i \in 1..Len(issued) :
        (issued[i].step = "count"
            /\ issued[i].outcome \in {"execute_failed", "connect_failed"})
        => ~(i = Len(issued) /\ pc = "Raised")

\* The order in which read_from_s3_and_write_to_oracle calls its steps.
StepOrder == <<"truncate", "count", "catalog", "insert", "count">>

\* C13: in every load the steps are called in the order truncate, pre-count,
\* catalog query, insert, post-count; and a pre-count that follows a
\* truncate that took place observes 0 rows, whatever the table held.
C13_TruncateThenCount ==
    /\ Len(issued) <= Len(StepOrder)
    /\ \A i \in 1..Len(issued) : issued[i].step = StepOrder[i]
    /\ (/\ Len(issued) >= 2
        /\ issued[1].outcome = "ok"
        /\ issued[2].outcome = "ok")
       => (records_count # <<>> /\ records_count[1] = 0)

\* C13 happens: the load of a file with rows into a table that held rows has
\* finished, and its pre-count saw 0 rows and its post-count the file's rows.
C13_Witness ==
    /\ pc = "Returned"
    /\ Len(issued) = 5
    /\ \A i \in 1..5 : issued[i].outcome = "ok"
    /\ Len(modified_dataInsertionTuples) = 2
    /\ records_count = <<0, 2>>

\* The object the loop is at is the requested file, with a suffix the
\* function reads.
AtRequestedFile ==
    /\ objIdx \in 1..Len(objects_list)
    /\ objects_list[objIdx] = source_filepath
    /\ source_filepath[Len(source_filepath)] \in {".csv", ".xlsx"}

\* C14: the first database step is the truncate, issued only once the
\* requested object was found in the listing with a .csv or .xlsx suffix,
\* fetched and parsed; as long as no step was issued the table is unchanged;
\* and a call that ends with no such object listed, or with a fetch or parse
\* error, has issued no step.
C14_NothingBeforeFileRead ==
    [][/\ (issued = <<>> /\ issued' # <<>>)
             => /\ pc = "Truncate"
                /\ issued'[1].step = "truncate"
                /\ AtRequestedFile
                /\ dataDF_columns # <<>>
                /\ modified_dataInsertionTuples = NormalizedRowsOf(dataInsertionTuples)
       /\ issued' = <<>> => table' = table
       /\ (/\ pc' \in {"Returned", "Raised"}
           /\ \/ \A i \in 1..Len(objects_list) : objects_list[i] # source_filepath
              \/ source_filepath[Len(source_filepath)] \notin {".csv", ".xlsx"}
              \/ raised' = "FetchOrParseError")
          => issued' = <<>>]_vars

\* C14 happens: the fetch or the parse of the requested file failed, and the
\* rows the table held are still there with no step issued.
C14_Witness ==
    /\ pc = "Raised"
    /\ raised = "FetchOrParseError"
    /\ issued = <<>>
    /\ table # <<>>

====
